---- MODULE Spec2Model ----
(***************************************************************************)
(* Model of yotta/lib/component.py: the Component entity and the recursive *)
(* dependency resolution (satisfyDependencies, satisfyDependenciesRecursive*)
(* and recursionFilter).                                                   *)
(*                                                                         *)
(* Component objects live in the sequence comps (comps[1] is the root the  *)
(* caller constructed).  The Python call stack of the main thread is the   *)
(* sequence stack, one frame per active satisfyDependenciesRecursive call. *)
(* The worker tasks of pool.map are the indices in a frame's pending set;  *)
(* they complete in any order.                                             *)
(*                                                                         *)
(* access.satisfyVersion is not part of the sources; it is modelled from   *)
(* its contract: reuse the entry of the available mapping, else return a   *)
(* newly constructed valid Component or raise ComponentUnavailable.        *)
(***************************************************************************)
EXTENDS Integers, Sequences, FiniteSets, TLC

\* ---------------------------------------------------------------- bounds
NumNames == 4       \* dependency names are 1..NumNames
MaxFound == 1       \* dependencies one call finds already on disk
MaxChars == 3       \* length of a target specifier string
MaxComps == 3       \* Component objects a client constructs by hand, the root included

RootName == 0
Names    == 1..NumNames
None     == 0       \* Python None where a component id or version is expected

VARIABLES
    comps,             \* Seq of Component objects, indexed by identity
    available,         \* the shared available_components dict: name -> id
    stack,             \* frames of satisfyDependenciesRecursive, top last
    status,            \* "idle", "running", "done" (the run returned),
                       \* "finished" (the direct call returned), "raised"
    ret,               \* (components, errors) returned to the root's caller
    runs,              \* calls the client has made on the root: 1 the
                       \* recursive run, 2 the later direct call
    visited,           \* history: levels entered in this run, in order
    tgt                \* what satisfyTarget gave the client: pc "idle",
                       \* "returned" (with target and errors) or "raised"

vars == <<comps, available, stack, status, ret, runs, visited, tgt>>

\* ------------------------------------------------------------ python data
EmptyDict == <<>>

\* dict.update(other): keys of other overwrite
update(d, other) ==
    [k \in (DOMAIN d) \cup (DOMAIN other) |->
        IF k \in DOMAIN other THEN other[k] ELSE d[k]]

Range(f) == {f[k] : k \in DOMAIN f}

\* every order in which a dict of these values may be iterated
Perms(S) == {s \in [1..Cardinality(S) -> S] : \A i, j \in DOMAIN s : i # j => s[i] # s[j]}

Last(s) == s[Len(s)]

\* ------------------------------------------------- description documents
\* The requirement a component places on each of its dependencies.  Every
\* declaring component has its own requirement, so two components that
\* depend on the same name always ask for different versions.
ReqOf(declarer) == declarer + 1

\* the largest element of a set of names, 0 for the empty set
RECURSIVE MaxName(_)
MaxName(S) == IF S = {} THEN 0
              ELSE LET x == CHOOSE y \in S : TRUE
                       r == MaxName(S \ {x})
                   IN IF x > r THEN x ELSE r

\* The 'dependencies' maps a document of component declarer may hold: none,
\* one or two (name, requirement) pairs, in increasing order of the names.
\* A component depends on names above its own only, and the names are
\* numbered in the order in which the run meets them: a document declares
\* names met before (hi is the largest) and then the next unused ones.
DepSeqs(declarer, hi) ==
    {s \in UNION {[1..n -> {m \in Names : m > declarer} \X {ReqOf(declarer)}] : n \in 0..2} :
        /\ \A i, j \in DOMAIN s : i < j => s[i][1] < s[j][1]
        /\ \A i \in DOMAIN s : s[i][1] > hi =>
              \A m \in (hi + 1)..(s[i][1] - 1) : \E j \in DOMAIN s : s[j][1] = m}

\* What package.json of a component may hold besides name and version:
\* no 'dependencies' key at all, or an ordered 'dependencies' map.
DocMenu(declarer, hi) ==
    {[hasDeps |-> FALSE, dependencies |-> <<>>,
      hasTargetDeps |-> FALSE, targetDependencies |-> <<>>]} \cup
    {[hasDeps |-> TRUE, dependencies |-> s,
      hasTargetDeps |-> FALSE, targetDependencies |-> <<>>] : s \in DepSeqs(declarer, hi)}

\* Component.__init__ for a directory holding a readable package.json.
\* The 'dependencies' part of the document is on disk from the start; the
\* model fixes it (read = TRUE) when getDependencySpecs first looks at it.
Component(path, name, ver, installed_previously, installed_linked, latest, run) ==
    [ error                   |-> None,
      path                    |-> path,
      installed_previously    |-> installed_previously,
      installed_linked        |-> installed_linked,
      installed_dependencies  |-> FALSE,
      dependencies_failed     |-> FALSE,
      version                 |-> ver,
      latest_suitable_version |-> latest,
      component_info          |-> [present |-> TRUE, name |-> name, version |-> ver,
                                   read |-> FALSE, hasDeps |-> FALSE,
                                   dependencies |-> <<>>,
                                   hasTargetDeps |-> FALSE,
                                   targetDependencies |-> <<>>],
      run                     |-> run ]

\* What the package.json of a directory may be for Component.__init__:
\* "missing" (readJSON raises), "noversion" (no 'version' key: KeyError),
\* "badversion" (version.Version raises), "ok"
Files == {"missing", "noversion", "badversion", "ok"}

\* the exception __init__ catches for a file, None for a good one
ErrorOf(file) == CASE file = "missing"    -> 1
                   [] file = "noversion"  -> 2
                   [] file = "badversion" -> 3
                   [] OTHER               -> None

\* Component.__init__ for any directory: the except branch leaves
\* component_info None, the error set and version None as initialised
ComponentFrom(file, path, name, ver, installed_previously, installed_linked, latest, run) ==
    IF file = "ok"
    THEN Component(path, name, ver, installed_previously, installed_linked, latest, run)
    ELSE [Component(path, name, ver, installed_previously, installed_linked, latest, run)
            EXCEPT !.error = ErrorOf(file),
                   !.version = None,
                   !.component_info = [@ EXCEPT !.present = FALSE, !.name = None,
                                                !.version = None]]

\* Component.__nonzero__
Truthy(c) == c # None /\ comps[c].component_info.present

getName(c) == comps[c].component_info.name

\* the second definition of getVersion is the one Python keeps
getVersion(c) == comps[c].version

installedPreviously(c) == comps[c].installed_previously

installedDependencies(c) == comps[c].installed_dependencies

\* Component.outdated: the newer version, or None
outdated(c) ==
    IF comps[c].latest_suitable_version # None
       /\ comps[c].latest_suitable_version > comps[c].version
    THEN comps[c].latest_suitable_version
    ELSE None

\* the names of a sequence of (name, requirement) pairs
NamesIn(specs) == {specs[i][1] : i \in DOMAIN specs}

\* os.path.join(self.path, Modules_Folder) and a dependency's directory in it
modules_path(c) == comps[c].path
component_path(c, name) == Append(modules_path(c), name)

\* ------------------------------------------------------------- satisfier
\* How the satisfier may find a dependency that is not in the available
\* mapping: newly installed, already on disk with a newer suitable version
\* known, or a symlink (with a newer version known, or up to date).
\* latest: 0 no latest_suitable_version, 1 the installed version, 2 a newer one
Provenance ==
    { [installed_previously |-> FALSE, installed_linked |-> FALSE, latest |-> 0],
      [installed_previously |-> TRUE,  installed_linked |-> FALSE, latest |-> 2],
      [installed_previously |-> TRUE,  installed_linked |-> TRUE,  latest |-> 1],
      [installed_previously |-> TRUE,  installed_linked |-> TRUE,  latest |-> 2] }

LatestOf(p, ver) == CASE p.latest = 0 -> None
                      [] p.latest = 1 -> ver
                      [] OTHER        -> ver + 1

\* access.satisfyVersion(name, ver_req, modules_path, available, update):
\* the outcomes it may have.  kind "reuse": the entry of the available
\* mapping; "new": a Component constructed in modules_path/name whose
\* version satisfies ver_req; "unavailable": ComponentUnavailable raised.
satisfyVersion(name, ver_req, dir, avail, update_installed) ==
    IF name \in DOMAIN avail
    THEN {[kind |-> "reuse", id |-> avail[name], prov |-> CHOOSE p \in Provenance : TRUE]}
    ELSE {[kind |-> "unavailable", id |-> None, prov |-> CHOOSE p \in Provenance : TRUE]}
         \cup {[kind |-> "new", id |-> None, prov |-> p] : p \in Provenance}

\* ------------------------------------------------------------ operations
\* A target object, as far as this code uses it: whether one was passed
\* (target is not None), and what its dependencyResolutionOrder() returns,
\* most specific name first.
NoTarget == [given |-> FALSE, order |-> <<>>]

\* Component.getDependencySpecs(target): the declared pairs in declaration
\* order, extended by the block of the first name of the target's
\* resolution order that is a key of 'targetDependencies'.  A document
\* without 'dependencies' makes the lookup component_info['dependencies']
\* raise KeyError.
KeyError(info) == ~info.hasDeps

\* the variant that appends the block of every matching name
getDependencySpecs_EveryBlock(info, target) ==
    LET RECURSIVE Walk(_, _)
        Walk(deps, order) ==
            IF order = <<>> THEN deps
            ELSE IF Head(order) \in DOMAIN info.targetDependencies
                 THEN Walk(deps \o info.targetDependencies[Head(order)], Tail(order))
                 ELSE Walk(deps, Tail(order))
    IN  IF target.given /\ info.hasTargetDeps
        THEN Walk(info.dependencies, target.order)
        ELSE info.dependencies

getDependencySpecs(info, target) ==
    LET RECURSIVE Walk(_, _)
        \* for t in target.dependencyResolutionOrder(): ... break
        Walk(deps, order) ==
            IF order = <<>> THEN deps
            ELSE IF Head(order) \in DOMAIN info.targetDependencies
                 THEN deps \o info.targetDependencies[Head(order)]
                 ELSE Walk(deps, Tail(order))
    IN  IF target.given /\ info.hasTargetDeps
        THEN Walk(info.dependencies, target.order)
        ELSE info.dependencies

\* recursionFilter without the test "c.getName() in available_components"
recursionFilter_NoAvailableTest(c, available_components, update_installed) ==
    IF ~Truthy(c) THEN FALSE
    ELSE IF comps[c].installed_linked THEN FALSE
    ELSE IF update_installed
         THEN outdated(c) # None \/ ~installedDependencies(c)
         ELSE ~(installedPreviously(c) \/ installedDependencies(c))

\* recursionFilter without the test "c.installed_linked"
recursionFilter_NoLinkedTest(c, available_components, update_installed) ==
    IF ~Truthy(c) THEN FALSE
    ELSE IF getName(c) \in DOMAIN available_components THEN FALSE
    ELSE IF update_installed
         THEN outdated(c) # None \/ ~installedDependencies(c)
         ELSE ~(installedPreviously(c) \/ installedDependencies(c))

\* recursionFilter that in update mode looks at outdated() only
recursionFilter_OutdatedOnly(c, available_components, update_installed) ==
    IF ~Truthy(c) THEN FALSE
    ELSE IF getName(c) \in DOMAIN available_components THEN FALSE
    ELSE IF comps[c].installed_linked THEN FALSE
    ELSE IF update_installed
         THEN outdated(c) # None
         ELSE ~(installedPreviously(c) \/ installedDependencies(c))

\* recursionFilter that in install mode forgets installedPreviously()
recursionFilter_IgnorePrevious(c, available_components, update_installed) ==
    IF ~Truthy(c) THEN FALSE
    ELSE IF getName(c) \in DOMAIN available_components THEN FALSE
    ELSE IF comps[c].installed_linked THEN FALSE
    ELSE IF update_installed
         THEN outdated(c) # None \/ ~installedDependencies(c)
         ELSE ~installedDependencies(c)

\* recursionFilter(c), the closure of satisfyDependenciesRecursive
recursionFilter(c, available_components, update_installed) ==
    IF ~Truthy(c) THEN FALSE
    ELSE IF getName(c) \in DOMAIN available_components THEN FALSE
    ELSE IF comps[c].installed_linked THEN FALSE
    ELSE IF update_installed
         THEN outdated(c) # None \/ ~installedDependencies(c)
         ELSE ~(installedPreviously(c) \/ installedDependencies(c))

\* the message prepended to a level's own errors
Label(c) == [kind |-> "label", path |-> comps[c].path, name |-> None, req |-> None]

\* the ComponentUnavailable raised for (name, ver_req) below directory dir
Unavailable(name, ver_req, dir) ==
    [kind |-> "unavailable", path |-> dir, name |-> name, req |-> ver_req]

\* components of this run that were on disk before it
FoundCount == Cardinality({c \in DOMAIN comps : comps[c].run = runs /\ comps[c].installed_previously})

\* the label prepended even to an empty list
LabelErrors_Always(c, errors) == <<Label(c)>> \o errors

\* if errors: errors = ['Failed to satisfy dependencies of <path>:'] + errors
LabelErrors(c, errors) == IF errors # <<>> THEN <<Label(c)>> \o errors ELSE errors

\* the child's errors put in front instead of appended
AppendErrors_InFront(errors, dep_errors) == dep_errors \o errors

\* errors += dep_errors
AppendErrors(errors, dep_errors) == errors \o dep_errors

\* the flag set only when no dependency failed
MarkInstalled_OnlyOnSuccess(c) ==
    [comps EXCEPT ![c].installed_dependencies = ~comps[c].dependencies_failed]

\* self.installed_dependencies = True
MarkInstalled(c) == [comps EXCEPT ![c].installed_dependencies = TRUE]

\* the largest name declared by the documents read so far
Declared ==
    MaxName(UNION {NamesIn(comps[c].component_info.dependencies) : c \in DOMAIN comps})

\* ComponentUnavailable failures of the levels in v
RECURSIVE FailCount(_)
FailCount(v) == IF v = <<>> THEN 0 ELSE Len(Last(v).fails) + FailCount(SubSeq(v, 1, Len(v) - 1))

Top == Last(stack)

SetTop(f) == [stack EXCEPT ![Len(stack)] = f]

\* The start of satisfyDependenciesRecursive (recursive) or of a direct call
\* of satisfyDependencies on component c, with the frames below in base:
\* satisfyDependencies evaluates getDependencySpecs and hands one task per
\* spec to pool.map.  A KeyError is caught nowhere and ends the run.
Enter(c, update_installed, target, base, vis, recursive, menu) ==
    \E doc \in (IF comps[c].component_info.read
                THEN {[hasDeps |-> comps[c].component_info.hasDeps,
                       dependencies |-> comps[c].component_info.dependencies,
                       hasTargetDeps |-> comps[c].component_info.hasTargetDeps,
                       targetDependencies |-> comps[c].component_info.targetDependencies]}
                ELSE menu) :
        LET info == [comps[c].component_info EXCEPT
                        !.read = TRUE, !.hasDeps = doc.hasDeps,
                        !.dependencies = doc.dependencies,
                        !.hasTargetDeps = doc.hasTargetDeps,
                        !.targetDependencies = doc.targetDependencies]
            specs == getDependencySpecs(info, target)
        IN  /\ comps' = [comps EXCEPT ![c].component_info = info]
            /\ IF KeyError(info)
               THEN /\ status' = "raised"
                    /\ stack' = <<>>
                    /\ visited' = vis
               ELSE /\ status' = "running"
                    /\ visited' = Append(vis, [self |-> c, fails |-> <<>>])
                    /\ stack' = Append(base,
                         [ self             |-> c,
                           recursive        |-> recursive,
                           update_installed |-> update_installed,
                           target           |-> target,
                           specs            |-> specs,
                           pending          |-> DOMAIN specs,
                           dependencies     |-> [i \in DOMAIN specs |-> None],
                           directive        |-> [i \in DOMAIN specs |-> "unset"],
                           errors           |-> <<>>,
                           components       |-> EmptyDict,
                           need_recursion   |-> <<>>,
                           failed_before    |-> comps[c].dependencies_failed,
                           level            |-> Len(vis) + 1,
                           pc               |-> "map" ])

\* The client calls satisfyDependenciesRecursive on the root with an empty
\* dict of its own as available_components.
Start(update_installed) ==
    /\ status = "idle"
    /\ runs' = 1
    /\ available' = EmptyDict
    /\ UNCHANGED <<ret, tgt>>
    /\ Enter(1, update_installed, NoTarget, <<>>, <<>>, TRUE, DocMenu(RootName, 0))

\* After the run the client calls satisfyDependencies on the root once
\* more, with the dict the run filled.  The history starts anew with the
\* call, and nothing has been returned from it yet.
Again(update_installed) ==
    /\ status = "done"
    /\ runs' = 2
    /\ UNCHANGED <<available, tgt>>
    /\ ret' = [components |-> EmptyDict, errors |-> <<>>]
    /\ Enter(1, update_installed, NoTarget, <<>>, <<>>, FALSE, DocMenu(RootName, 0))

\* One worker task of pool.map: satisfyDep((name, ver_req)) for the i-th
\* spec of the level on top of the stack.  Tasks run in any order; each is
\* one call of the satisfier, whose result is stored at position i of the
\* list pool.map returns.
satisfyDep(i) ==
    /\ status = "running"
    /\ Top.pc = "map"
    /\ i \in Top.pending
    /\ LET f       == Top
           name    == f.specs[i][1]
           ver_req == f.specs[i][2]
           dir     == modules_path(f.self)
           upd     == IF f.update_installed THEN "Update" ELSE "None"
       IN \E o \in satisfyVersion(name, ver_req, dir, available, upd) :
            \/ /\ o.kind = "reuse"
               /\ stack' = SetTop([f EXCEPT !.pending = @ \ {i},
                                            !.dependencies[i] = o.id,
                                            !.directive[i] = upd])
               /\ UNCHANGED <<comps, visited>>
            \/ /\ o.kind = "new"
               /\ o.prov.installed_previously => FoundCount < MaxFound
               /\ comps' = Append(comps,
                    Component(component_path(f.self, name), name, ver_req,
                              o.prov.installed_previously, o.prov.installed_linked,
                              LatestOf(o.prov, ver_req), runs))
               /\ stack' = SetTop([f EXCEPT !.pending = @ \ {i},
                                            !.dependencies[i] = Len(comps) + 1,
                                            !.directive[i] = upd])
               /\ UNCHANGED visited
            \/ /\ o.kind = "unavailable"
               /\ stack' = SetTop([f EXCEPT !.pending = @ \ {i},
                                            !.directive[i] = upd,
                                            !.errors = Append(@, Unavailable(name, ver_req, dir))])
               /\ comps' = [comps EXCEPT ![f.self].dependencies_failed = TRUE]
               /\ visited' = [visited EXCEPT ![f.level].fails =
                                 Append(@, Unavailable(name, ver_req, dir))]
    /\ UNCHANGED <<available, status, ret, runs, tgt>>

\* the result dict built from the newly fetched dependencies only
DictOfDependencies_NewOnly(dependencies) ==
    LET good == {i \in DOMAIN dependencies :
                    Truthy(dependencies[i]) /\ getName(dependencies[i]) \notin DOMAIN available}
    IN  [k \in {getName(dependencies[i]) : i \in good} |->
            dependencies[CHOOSE i \in good : getName(dependencies[i]) = k]]

\* the result dict that leaves out only the dependencies that raised
DictOfDependencies_KeepInvalid(dependencies) ==
    LET good == {i \in DOMAIN dependencies : dependencies[i] # None}
    IN  [k \in {getName(dependencies[i]) : i \in good} |->
            dependencies[CHOOSE i \in good : getName(dependencies[i]) = k]]

\* {d.component_info['name']: d for d in dependencies if d}
DictOfDependencies(dependencies) ==
    LET good == {i \in DOMAIN dependencies : Truthy(dependencies[i])}
        keys == {getName(dependencies[i]) : i \in good}
    IN  [k \in keys |->
            LET last == CHOOSE i \in good :
                          /\ getName(dependencies[i]) = k
                          /\ \A j \in good : getName(dependencies[j]) = k => j <= i
            IN dependencies[last]]

\* a join that does not wait for the tasks still running
Join_NoBarrier ==
    /\ status = "running"
    /\ Top.pc = "map"
    /\ comps' = MarkInstalled(Top.self)
    /\ stack' = SetTop([Top EXCEPT !.components = DictOfDependencies(Top.dependencies),
                                   !.pc = "joined"])
    /\ UNCHANGED <<available, status, ret, runs, visited, tgt>>

\* pool.map has returned (every task of the level is complete):
\* satisfyDependencies sets installed_dependencies and returns
\* (components, errors).
Join ==
    /\ status = "running"
    /\ Top.pc = "map"
    /\ Top.pending = {}
    /\ comps' = MarkInstalled(Top.self)
    /\ stack' = SetTop([Top EXCEPT !.components = DictOfDependencies(Top.dependencies),
                                   !.pc = "joined"])
    /\ UNCHANGED <<available, status, ret, runs, visited, tgt>>

\* if errors: errors = [label] + errors
\* need_recursion = filter(recursionFilter, components.values())
\* components is a plain dict: values() comes in hash order of the names,
\* any order as far as the declaration order is concerned.
Filter ==
    /\ status = "running"
    /\ Top.pc = "joined"
    /\ Top.recursive
    /\ \E values \in Perms(Range(Top.components)) :
         stack' = SetTop([Top EXCEPT
            !.errors = LabelErrors(Top.self, @),
            !.need_recursion =
                SelectSeq(values, LAMBDA c : recursionFilter(c, available, Top.update_installed)),
            !.pc = "filtered"])
    /\ UNCHANGED <<comps, available, status, ret, runs, visited, tgt>>

\* the loop entered without the level's results merged
Merge_Skip ==
    /\ status = "running"
    /\ Top.pc = "filtered"
    /\ stack' = SetTop([Top EXCEPT !.pc = "loop"])
    /\ UNCHANGED <<comps, available, status, ret, runs, visited, tgt>>

\* available_components.update(components)
Merge ==
    /\ status = "running"
    /\ Top.pc = "filtered"
    /\ available' = update(available, Top.components)
    /\ stack' = SetTop([Top EXCEPT !.pc = "loop"])
    /\ UNCHANGED <<comps, status, ret, runs, visited, tgt>>

\* for c in need_recursion: c.satisfyDependenciesRecursive(available_components,
\* update_installed, target) -- the call
Recurse ==
    /\ status = "running"
    /\ Top.pc = "loop"
    /\ Top.need_recursion # <<>>
    /\ Enter(Head(Top.need_recursion), Top.update_installed, Top.target,
             SetTop([Top EXCEPT !.need_recursion = Tail(@), !.pc = "called"]),
             visited, TRUE, DocMenu(getName(Head(Top.need_recursion)), Declared))
    /\ UNCHANGED <<available, ret, runs, tgt>>

\* The loop of the top frame is over: it returns (components, errors).  A
\* child's caller merges dep_components into the shared mapping and appends
\* dep_errors; the root's caller receives the pair.
Return ==
    /\ status = "running"
    /\ Top.pc = "loop"
    /\ Top.need_recursion = <<>>
    /\ IF Len(stack) = 1
       THEN /\ ret' = [components |-> Top.components, errors |-> Top.errors]
            /\ status' = "done"
            /\ stack' = <<>>
            /\ UNCHANGED available
       ELSE LET parent == stack[Len(stack) - 1]
            IN /\ available' = update(available, Top.components)
               /\ stack' = Append(SubSeq(stack, 1, Len(stack) - 2),
                                  [parent EXCEPT !.errors = AppendErrors(@, Top.errors),
                                                 !.pc = "loop"])
               /\ UNCHANGED <<ret, status>>
    /\ UNCHANGED <<comps, runs, visited, tgt>>

\* the direct call of satisfyDependencies returns (components, errors)
ReturnDirect ==
    /\ status = "running"
    /\ Top.pc = "joined"
    /\ ~Top.recursive
    /\ ret' = [components |-> Top.components, errors |-> Top.errors]
    /\ status' = "finished"
    /\ stack' = <<>>
    /\ UNCHANGED <<comps, available, runs, visited, tgt>>

\* ------------------------------------------------------------- targets
\* target specifier strings: sequences of characters, "," the separator
Chars == {"n", ","}
Specifiers == UNION {[1..n -> Chars] : n \in 0..MaxChars}

\* str.split(',', 1): the string itself when it holds no separator, else
\* the part before the first separator and the part after it
split(str) ==
    LET seps == {k \in DOMAIN str : str[k] = ","}
    IN  IF seps = {} THEN <<str>>
        ELSE LET k == CHOOSE x \in seps : \A y \in seps : x <= y
             IN <<SubSeq(str, 1, k - 1), SubSeq(str, k + 1, Len(str))>>

\* names a target may list in its dependencyResolutionOrder()
TargetNames == {"t1", "t2"}

TargetOrders == {<<"t1">>, <<"t2">>, <<"t1", "t2">>, <<"t2", "t1">>}

\* access.satisfyTarget(name, version_req, targets_path, update_installed):
\* the outcomes it may have, a Target or TargetUnavailable raised
access_satisfyTarget(target_name, target_version_req, targets_path, update_installed) ==
    {[kind |-> "unavailable", target |-> NoTarget]}
    \cup {[kind |-> "target", target |-> [given |-> TRUE, order |-> o]] : o \in TargetOrders}

TargetUnavailable(target_name, target_version_req) ==
    [kind |-> "unavailable", path |-> <<"yotta_targets">>, name |-> target_name,
     req |-> target_version_req]

\* Component.satisfyTarget(target_name_and_version, update_installed) on the
\* root.  The tuple assignment raises ValueError when split returns one
\* part only; only TargetUnavailable is caught.
satisfyTarget(target_name_and_version, update_installed) ==
    /\ status = "idle"
    /\ tgt.pc = "idle"
    /\ LET parts == split(target_name_and_version)
       IN \/ /\ Len(parts) # 2
             /\ tgt' = [pc |-> "raised", target |-> NoTarget, errors |-> <<>>]
          \/ /\ Len(parts) = 2
             /\ \E o \in access_satisfyTarget(parts[1], parts[2], <<"yotta_targets">>,
                                               IF update_installed THEN "Update" ELSE "None") :
                  \/ /\ o.kind = "target"
                     /\ tgt' = [pc |-> "returned", target |-> o.target, errors |-> <<>>]
                  \/ /\ o.kind = "unavailable"
                     /\ tgt' = [pc |-> "returned", target |-> NoTarget,
                                errors |-> <<TargetUnavailable(parts[1], parts[2])>>]
    /\ UNCHANGED <<comps, available, stack, status, ret, runs, visited>>

\* the extra specs a block of 'targetDependencies' under key t may list:
\* a name the document may also declare in 'dependencies', or another one
Blocks(t) ==
    LET req == IF t = "t1" THEN 2 ELSE 3
    IN  {<<<<1, req>>>>, <<<<3, req>>>>}

\* documents of the root with a 'targetDependencies' map, or without one
TargetDocMenu ==
    LET deps == {<<>>, <<<<1, ReqOf(RootName)>>>>,
                 <<<<1, ReqOf(RootName)>>, <<2, ReqOf(RootName)>>>>}
        maps == UNION {[D -> UNION {Blocks(t) : t \in TargetNames}] : D \in SUBSET TargetNames}
        good == {m \in maps : \A t \in DOMAIN m : m[t] \in Blocks(t)}
    IN  {[hasDeps |-> TRUE, dependencies |-> d,
          hasTargetDeps |-> FALSE, targetDependencies |-> <<>>] : d \in deps}
        \cup {[hasDeps |-> TRUE, dependencies |-> d,
               hasTargetDeps |-> TRUE, targetDependencies |-> m] : d \in deps, m \in good}

\* After satisfyTarget has returned, the client calls satisfyDependencies
\* on the root with the target it was given (None when that failed) and an
\* empty dict.
StartTarget(update_installed) ==
    /\ status = "idle"
    /\ tgt.pc = "returned"
    /\ runs' = 1
    /\ available' = EmptyDict
    /\ UNCHANGED <<ret, tgt>>
    /\ Enter(1, update_installed, tgt.target, <<>>, <<>>, FALSE, TargetDocMenu)

\* ------------------------------------------------- objects made by hand
\* A client constructs a Component for a directory, as getDependencies does
\* for its dependencies (there with installed_previously = True), with any
\* provenance flags.
Construct(file, installed_previously, installed_linked, latest) ==
    /\ status = "idle"
    /\ tgt.pc = "idle"
    /\ Len(comps) < MaxComps
    /\ installed_linked => installed_previously
    /\ comps' = Append(comps,
          ComponentFrom(file, <<Len(comps)>>, Len(comps), 1,
                        installed_previously, installed_linked, latest, 0))
    /\ UNCHANGED <<available, stack, status, ret, runs, visited, tgt>>

\* Component.setVersion(version): self.version is assigned first; the item
\* assignment on component_info then raises TypeError when component_info
\* is None, and the exception leaves the client's call.  The document holds
\* the string form, represented here by the version it denotes.
setVersion(c, version) ==
    /\ status = "idle"
    /\ tgt.pc = "idle"
    /\ c \in DOMAIN comps
    /\ comps' = [comps EXCEPT
          ![c].version = version,
          ![c].component_info.version =
              IF comps[c].component_info.present THEN version ELSE @]
    /\ status' = IF comps[c].component_info.present THEN status ELSE "raised"
    /\ UNCHANGED <<available, stack, ret, runs, visited, tgt>>

\* ------------------------------------------- any documents, any satisfier
\* Names for runs whose documents may declare any name: the root's own
\* name and the first dependency names.
WildNames == 0..(NumNames - 3)

\* documents with a 'dependencies' map of up to two of these names, the
\* declarer's own name included
WildMenu(declarer) ==
    {[hasDeps |-> TRUE, dependencies |-> s,
      hasTargetDeps |-> FALSE, targetDependencies |-> <<>>] :
        s \in {t \in UNION {[1..n -> WildNames \X {ReqOf(declarer)}] : n \in 0..2} :
                 \A i, j \in DOMAIN t : i < j => t[i][1] < t[j][1]}}

\* satisfyDependenciesRecursive on a root with any such document
StartWild(update_installed) ==
    /\ status = "idle"
    /\ tgt.pc = "idle"
    /\ runs' = 1
    /\ available' = EmptyDict
    /\ UNCHANGED <<ret, tgt>>
    /\ Enter(1, update_installed, NoTarget, <<>>, <<>>, TRUE, WildMenu(RootName))

\* the recursive call of the loop, into a component with any such document
RecurseWild ==
    /\ status = "running"
    /\ Top.pc = "loop"
    /\ Top.need_recursion # <<>>
    /\ Enter(Head(Top.need_recursion), Top.update_installed, Top.target,
             SetTop([Top EXCEPT !.need_recursion = Tail(@), !.pc = "called"]),
             visited, TRUE, WildMenu(getName(Head(Top.need_recursion))))
    /\ UNCHANGED <<available, ret, runs, tgt>>

\* A task of pool.map for which the satisfier neither reuses nor raises but
\* returns a Component that is not valid (the package.json of what it
\* fetched cannot be used): satisfyDep returns that object.
satisfyDepInvalid(i) ==
    /\ status = "running"
    /\ Top.pc = "map"
    /\ i \in Top.pending
    /\ Top.specs[i][1] \notin DOMAIN available
    /\ \E file \in Files \ {"ok"} :
          /\ comps' = Append(comps,
                ComponentFrom(file, component_path(Top.self, Top.specs[i][1]),
                              Top.specs[i][1], Top.specs[i][2],
                              FALSE, FALSE, None, runs))
          /\ stack' = SetTop([Top EXCEPT
                !.pending = @ \ {i},
                !.dependencies[i] = Len(comps) + 1,
                !.directive[i] = IF Top.update_installed THEN "Update" ELSE "None"])
    /\ UNCHANGED <<available, status, ret, runs, visited, tgt>>

Init ==
    /\ comps = <<Component(<<>>, RootName, 1, FALSE, FALSE, None, 0)>>
    /\ available = EmptyDict
    /\ stack = <<>>
    /\ status = "idle"
    /\ ret = [components |-> EmptyDict, errors |-> <<>>]
    /\ runs = 0
    /\ visited = <<>>
    /\ tgt = [pc |-> "idle", target |-> NoTarget, errors |-> <<>>]

\* one run of satisfyDependenciesRecursive on the root
Next ==
    \/ \E u \in BOOLEAN : Start(u)
    \/ \E i \in 1..2 : satisfyDep(i)
    \/ Join
    \/ Filter
    \/ Merge
    \/ Recurse
    \/ Return

Spec == Init /\ [][Next]_vars

\* the run, and then a second call of satisfyDependencies on the root
NextAgain ==
    \/ \E u \in BOOLEAN : Start(u)
    \/ \E u \in BOOLEAN : Again(u)
    \/ \E i \in 1..2 : satisfyDep(i)
    \/ Join
    \/ Filter
    \/ Merge
    \/ Recurse
    \/ Return
    \/ ReturnDirect

SpecAgain == Init /\ [][NextAgain]_vars

\* satisfyTarget, and then satisfyDependencies with its target
NextTarget ==
    \/ \E str \in Specifiers, u \in BOOLEAN : satisfyTarget(str, u)
    \/ \E u \in BOOLEAN : StartTarget(u)
    \/ \E i \in 1..3 : satisfyDep(i)
    \/ Join
    \/ ReturnDirect

SpecTarget == Init /\ [][NextTarget]_vars

\* a client that constructs Component objects and sets versions
NextComponent ==
    \/ \E file \in Files, p, l \in BOOLEAN, latest \in {None, 2} : Construct(file, p, l, latest)
    \/ \E c \in 1..MaxComps, v \in 1..2 : setVersion(c, v)

SpecComponent == Init /\ [][NextComponent]_vars

\* a run over documents that may form cycles; every step that can be taken
\* is taken in the end (the calls return, the pool runs its tasks)
NextWild ==
    \/ \E u \in BOOLEAN : StartWild(u)
    \/ \E i \in 1..2 : satisfyDep(i)
    \/ Join
    \/ Filter
    \/ Merge
    \/ RecurseWild
    \/ Return

SpecWild == Init /\ [][NextWild]_vars /\ WF_vars(NextWild)

\* such a run with a satisfier that may also deliver invalid components
NextInvalid ==
    \/ \E u \in BOOLEAN : StartWild(u)
    \/ \E i \in 1..2 : satisfyDep(i)
    \/ \E i \in 1..2 : satisfyDepInvalid(i)
    \/ Join
    \/ Filter
    \/ Merge
    \/ RecurseWild
    \/ Return

SpecInvalid == Init /\ [][NextInvalid]_vars

\* ============================================================== claims
Min(S) == CHOOSE x \in S : \A y \in S : x <= y

\* depth of a component below the root: the length of its path
Depth(c) == Len(comps[c].path)

\* the depths at which name n has been requested by the levels of this run
RequestDepths(n) ==
    {Depth(visited[k].self) + 1 : k \in {j \in DOMAIN visited :
        n \in NamesIn(comps[visited[j].self].component_info.dependencies)}}

\* Component objects the satisfier constructed for name n in this run
FreshOf(n) == {c \in DOMAIN comps : c # 1 /\ getName(c) = n /\ comps[c].run = runs}

\* C1: after the root's run returns, a name requested at two or more depths
\* is recorded with the component produced by the request at the smallest
\* of these depths, and was resolved afresh only once.  (Stated for first
\* runs in which no request failed.)
C1_ShallowestWins ==
    (status = "done" /\ runs = 1 /\ FailCount(visited) = 0) =>
        \A n \in DOMAIN available :
            Cardinality(RequestDepths(n)) >= 2 =>
                /\ Depth(available[n]) = Min(RequestDepths(n))
                /\ Cardinality(FreshOf(n)) = 1

\* ---------------------------------------------------------------- C2
Frames == {stack[k] : k \in DOMAIN stack}

Done(f) == DOMAIN f.specs \ f.pending

\* names of the components recursed into so far in this run
RecursedNames == {getName(visited[k].self) : k \in 2..Len(visited)}

\* C2: an entry of the shared available mapping is never removed or
\* replaced by a different component (not by the merge of a level's
\* results, not by the merge after a child's recursion), and a step that
\* recurses into a component enters a name no level has entered before.
C2_AvailableNeverOverwritten ==
    [][ /\ \A n \in DOMAIN available :
             n \in DOMAIN available' /\ available'[n] = available[n]
        /\ (Len(visited) >= 1 /\ Len(visited') = Len(visited) + 1) =>
             getName(Last(visited').self) \notin RecursedNames
      ]_vars

\* a deeper level asked for a name that was available, was given the
\* recorded component, and has merged its results
C2_Witness ==
    /\ Len(stack) >= 2
    /\ Top.pc = "loop"
    /\ \E i \in DOMAIN Top.specs :
          /\ Top.dependencies[i] # None
          /\ comps[Top.dependencies[i]].path # component_path(Top.self, Top.specs[i][1])
          /\ available[Top.specs[i][1]] = Top.dependencies[i]

\* ---------------------------------------------------------------- C3
\* the specs of frame f for which the satisfier raised ComponentUnavailable
FailedSpecs(f) ==
    {i \in DOMAIN f.specs : \E k \in DOMAIN visited[f.level].fails :
        visited[f.level].fails[k].name = f.specs[i][1]}

\* C3: when satisfyDependencies returns, whatever the order in which the
\* tasks ran: every spec that did not fail is in the result mapping, no
\* failed name is, the error list has exactly one entry per failed spec,
\* and dependencies_failed is set iff a spec failed now or in an earlier call.
C3_FailureIsolation ==
    \A f \in Frames : f.pc = "joined" =>
        LET F == FailedSpecs(f) IN
        /\ \A i \in DOMAIN f.specs \ F :
              /\ f.specs[i][1] \in DOMAIN f.components
              /\ f.components[f.specs[i][1]] = f.dependencies[i]
              /\ f.dependencies[i] # None
        /\ \A i \in F : f.specs[i][1] \notin DOMAIN f.components
        /\ Len(f.errors) = Cardinality(F)
        /\ \A i \in F :
              Cardinality({k \in DOMAIN f.errors :
                  f.errors[k] = Unavailable(f.specs[i][1], f.specs[i][2],
                                            modules_path(f.self))}) = 1
        /\ comps[f.self].dependencies_failed = (f.failed_before \/ F # {})

\* one spec of a level failed and its sibling resolved
C3_Witness ==
    /\ stack # <<>>
    /\ Top.pc = "joined"
    /\ ~Top.failed_before
    /\ Cardinality(FailedSpecs(Top)) = 1
    /\ Len(Top.specs) = 2
    /\ DOMAIN Top.components # {}
    /\ comps[Top.self].dependencies_failed

\* ---------------------------------------------------------------- C4
\* what the levels entered in this run recorded, in the order of entry: a
\* level with failures gives its label and then its failures
RECURSIVE FlatErrors(_)
FlatErrors(v) ==
    IF v = <<>> THEN <<>>
    ELSE (IF Head(v).fails # <<>> THEN <<Label(Head(v).self)>> \o Head(v).fails ELSE <<>>)
         \o FlatErrors(Tail(v))

\* C4: the error list the root returns is one flat list holding every
\* satisfier failure of the run exactly once, level by level in the order
\* the levels were entered, each level's failures preceded by the label
\* with that level's path, and no label for a level without failures.
C4_FlatErrorList ==
    status = "done" => ret.errors = FlatErrors(visited)

\* the run returned with failures at two levels, the second one below a
\* level that had none
C4_Witness ==
    /\ status = "done"
    /\ Len(visited) >= 3
    /\ visited[1].fails # <<>>
    /\ visited[2].fails = <<>>
    /\ visited[3].fails # <<>>
    /\ Depth(visited[3].self) = 2

\* ---------------------------------------------------------------- C5
InNeed(f, c) == \E k \in DOMAIN f.need_recursion : f.need_recursion[k] = c

\* C5 as claimed: in update mode every component a level returns is
\* recursed into iff it is outdated or never had satisfyDependencies
\* invoked on it.
C5_UpdateModeIff ==
    \A f \in Frames : (f.pc = "filtered" /\ f.update_installed) =>
        \A c \in Range(f.components) :
            InNeed(f, c) <=> (outdated(c) # None \/ ~comps[c].installed_dependencies)

\* C5 amended: in update mode a returned component whose name is not yet a
\* key of the available mapping and that is not symlink-installed is
\* recursed into iff it is outdated or never had satisfyDependencies
\* invoked on it; the other returned components are not recursed into.
C5_UpdateModeIffNewUnlinked ==
    \A f \in Frames : (f.pc = "filtered" /\ f.update_installed) =>
        \A c \in Range(f.components) :
            IF getName(c) \notin DOMAIN available /\ ~comps[c].installed_linked
            THEN InNeed(f, c) <=> (outdated(c) # None \/ ~comps[c].installed_dependencies)
            ELSE ~InNeed(f, c)

\* update mode selected an outdated component that was on disk, and left
\* out one that was already available
C5_Witness ==
    /\ stack # <<>>
    /\ Top.pc = "filtered"
    /\ Top.update_installed
    /\ \E c \in Range(Top.components) :
          /\ getName(c) \notin DOMAIN available
          /\ comps[c].installed_previously
          /\ outdated(c) # None
          /\ InNeed(Top, c)
    /\ \E c \in Range(Top.components) :
          /\ getName(c) \in DOMAIN available
          /\ ~comps[c].installed_dependencies
          /\ ~InNeed(Top, c)

\* ---------------------------------------------------------------- C6
\* C6: in install mode a component selected for recursion was not installed
\* previously and has not had its dependencies installed; a component that
\* was on disk before the run is not selected, whatever its
\* latest_suitable_version.
C6_InstallModeSkipsOnDisk ==
    \A f \in Frames : ~f.update_installed =>
        /\ \A k \in DOMAIN f.need_recursion :
              /\ ~comps[f.need_recursion[k]].installed_previously
              /\ ~comps[f.need_recursion[k]].installed_dependencies
        /\ f.self # 1 => ~comps[f.self].installed_previously

\* install mode left out a new, unlinked component that was on disk with a
\* newer suitable version known
C6_Witness ==
    /\ stack # <<>>
    /\ Top.pc = "filtered"
    /\ ~Top.update_installed
    /\ \E c \in Range(Top.components) :
          /\ getName(c) \notin DOMAIN available
          /\ comps[c].installed_previously
          /\ ~comps[c].installed_linked
          /\ comps[c].latest_suitable_version > comps[c].version
          /\ ~InNeed(Top, c)

\* ---------------------------------------------------------------- C7
\* C7 as claimed: a symlink-installed dependency is never recursed into and
\* the satisfier is never called with 'Update' for it.
C7_LinkedNeverUpdated ==
    \A f \in Frames :
        /\ \A k \in DOMAIN f.need_recursion : ~comps[f.need_recursion[k]].installed_linked
        /\ f.self # 1 => ~comps[f.self].installed_linked
        /\ \A i \in Done(f) :
              (f.dependencies[i] # None /\ comps[f.dependencies[i]].installed_linked)
                  => f.directive[i] # "Update"

\* C7 amended: in both modes and whatever outdated() returns, a
\* symlink-installed dependency is never recursed into; the satisfier is
\* called with 'Update' for a dependency, linked or not, exactly when the
\* root's run is in update mode.
C7_LinkedNeverRecursed ==
    \A f \in Frames :
        /\ \A k \in DOMAIN f.need_recursion : ~comps[f.need_recursion[k]].installed_linked
        /\ f.self # 1 => ~comps[f.self].installed_linked
        /\ \A i \in Done(f) :
              f.directive[i] = IF stack[1].update_installed THEN "Update" ELSE "None"

\* update mode left out a new symlink-installed component that is outdated,
\* below the root's level
C7_Witness ==
    /\ Len(stack) >= 2
    /\ Top.pc = "filtered"
    /\ Top.update_installed
    /\ \E i \in DOMAIN Top.specs :
          /\ Top.dependencies[i] # None
          /\ getName(Top.dependencies[i]) \notin DOMAIN available
          /\ comps[Top.dependencies[i]].installed_linked
          /\ outdated(Top.dependencies[i]) # None
          /\ ~InNeed(Top, Top.dependencies[i])

\* ---------------------------------------------------------------- C8
Declares(c, n) ==
    /\ comps[c].component_info.read
    /\ comps[c].component_info.hasDeps
    /\ n \in NamesIn(comps[c].component_info.dependencies)

\* C8: when the root declares a then b, both newly installed, and both
\* declare a dependency on c, the recursion takes a before b, so that c is
\* resolved once, by a's request (in a's directory, with a's requirement).
\* (Stated for first runs in which no request failed.)
C8_DeclarationOrder ==
    (status = "done" /\ runs = 1 /\ FailCount(visited) = 0
        /\ Len(comps[1].component_info.dependencies) = 2) =>
        LET a == comps[1].component_info.dependencies[1][1]
            b == comps[1].component_info.dependencies[2][1]
        IN  (/\ ~comps[available[a]].installed_previously
             /\ ~comps[available[b]].installed_previously) =>
                \A c \in DOMAIN available :
                    (Declares(available[a], c) /\ Declares(available[b], c)) =>
                        /\ comps[available[c]].path = <<a, c>>
                        /\ comps[available[c]].version = ReqOf(a)
                        /\ Cardinality(FreshOf(c)) = 1

\* ---------------------------------------------------------------- C9
NoDependenciesKey(c) ==
    comps[c].component_info.read /\ ~comps[c].component_info.hasDeps

\* C9: a run that meets a valid component whose document has no
\* 'dependencies' key completes normally: nothing is raised, and when that
\* component is the root the run returns an empty mapping and no errors.
C9_NoDependenciesKeyCompletes ==
    \A c \in DOMAIN comps : NoDependenciesKey(c) =>
        /\ status # "raised"
        /\ (c = 1 /\ status = "done") =>
              (ret.components = EmptyDict /\ ret.errors = <<>>)

\* --------------------------------------------------------------- C10
\* C10: every call of satisfyDependencies that returns has set
\* installed_dependencies on its component, also when a dependency failed;
\* the flag once set stays set; and a call never has a Component
\* constructed for a name that is a key of the available mapping: the task
\* of such a name delivers the recorded component.
C10_InstalledDependenciesSticks ==
    /\ [](\A f \in Frames : f.pc # "map" => comps[f.self].installed_dependencies)
    /\ [](\A f \in Frames : f.pc \in {"map", "joined", "filtered"} =>
            \A i \in Done(f) : f.specs[i][1] \in DOMAIN available =>
                f.dependencies[i] = available[f.specs[i][1]])
    /\ [][ /\ \A c \in DOMAIN comps :
                comps[c].installed_dependencies => comps'[c].installed_dependencies
           /\ Len(comps') > Len(comps) =>
                comps'[Len(comps')].component_info.name \notin DOMAIN available
         ]_vars

\* the root's second call has returned: the flag was set before the call,
\* a dependency failed in it, and another one was reused from the mapping
C10_Witness ==
    /\ runs = 2
    /\ stack # <<>>
    /\ Top.self = 1
    /\ Top.pc = "joined"
    /\ Top.failed_before
    /\ comps[1].installed_dependencies
    /\ comps[1].dependencies_failed
    /\ Top.errors # <<>>
    /\ \E i \in DOMAIN Top.specs :
          /\ Top.specs[i][1] \in DOMAIN available
          /\ Top.dependencies[i] = available[Top.specs[i][1]]
          /\ comps[Top.dependencies[i]].run = 1

\* --------------------------------------------------------------- C11
\* positions of the target's resolution order whose name is a key of the
\* document's 'targetDependencies'
Matches(info, target) ==
    {k \in DOMAIN target.order :
        target.given /\ info.hasTargetDeps /\ target.order[k] \in DOMAIN info.targetDependencies}

\* C11: the specs a level works on are the declared 'dependencies' pairs in
\* declaration order, followed by the block of the first matching name of
\* the target's resolution order and by no other block; without a target,
\* without 'targetDependencies' or without a match they are exactly the
\* declared pairs.
C11_AtMostOneTargetBlock ==
    \A f \in Frames :
        LET info == comps[f.self].component_info
            M    == Matches(info, f.target)
        IN  /\ Len(f.specs) >= Len(info.dependencies)
            /\ SubSeq(f.specs, 1, Len(info.dependencies)) = info.dependencies
            /\ M = {} => f.specs = info.dependencies
            /\ M # {} =>
                  \E k \in M :
                     /\ \A j \in M : k <= j
                     /\ SubSeq(f.specs, Len(info.dependencies) + 1, Len(f.specs))
                            = info.targetDependencies[f.target.order[k]]

\* two names of the resolution order are keys, with different blocks, and
\* the specs end with the block of the first
C11_Witness ==
    /\ stack # <<>>
    /\ Cardinality(Matches(comps[Top.self].component_info, Top.target)) = 2
    /\ Len(comps[Top.self].component_info.dependencies) = 2
    /\ Len(Top.specs) = 3
    /\ Top.specs[3] = comps[Top.self].component_info.targetDependencies[Top.target.order[1]][1]
    /\ Top.specs[3] # comps[Top.self].component_info.targetDependencies[Top.target.order[2]][1]

\* --------------------------------------------------------------- C12
\* C12: satisfyTarget never raises, whatever the specifier and the
\* satisfier's outcome: it returns the target and no error, or no target
\* and the collected error.
C12_SatisfyTargetNeverRaises ==
    /\ tgt.pc # "raised"
    /\ tgt.pc = "returned" => (tgt.target.given <=> tgt.errors = <<>>)

\* --------------------------------------------------------------- C13
\* C13: in every state, for every component: it is truthy iff its document
\* is present; the document is present iff reading it and parsing its
\* version raised nothing; an invalid component has its error set and
\* neither document nor version, whatever its provenance flags.
C13_ValidIffDocument ==
    \A c \in DOMAIN comps :
        /\ Truthy(c) <=> comps[c].component_info.present
        /\ comps[c].component_info.present <=> comps[c].error = None
        /\ ~Truthy(c) => /\ comps[c].error # None
                         /\ ~comps[c].component_info.present
                         /\ comps[c].version = None

\* --------------------------------------------------------------- C14
\* level x of the history lies in the subtree of level i: the component of
\* i is installed on the path to the component of x
InSubtree(x, i) ==
    LET px == comps[visited[x].self].path
        pi == comps[visited[i].self].path
    IN  Len(pi) <= Len(px) /\ SubSeq(px, 1, Len(pi)) = pi

\* C14: a recursive call starts from a level that is in its loop and has
\* all its results in the shared mapping; only the innermost call is active, every
\* caller waits in its loop for the one child it called; and the levels of
\* a child's subtree are entered contiguously, before the next sibling (a
\* level in the subtree of an earlier one is preceded by a level of that
\* subtree).
C14_MergeThenOneChildAtATime ==
    /\ [][(Len(visited) >= 1 /\ Len(visited') = Len(visited) + 1) =>
             /\ Top.pc = "loop"
             /\ \A n \in DOMAIN Top.components : n \in DOMAIN available
         ]_vars
    /\ [](\A k \in DOMAIN stack :
             k < Len(stack) =>
                /\ stack[k].pc = "called"
                /\ InSubtree(stack[k + 1].level, stack[k].level)
                /\ Depth(stack[k + 1].self) = Depth(stack[k].self) + 1)
    /\ [](\A i, l \in DOMAIN visited :
             (i + 1 < l /\ InSubtree(l, i)) => InSubtree(l - 1, i))

\* the run returned after the root recursed into one child and its
\* grandchild and then into a second child
C14_Witness ==
    /\ status = "done"
    /\ Len(visited) >= 4
    /\ Depth(visited[2].self) = 1
    /\ Depth(visited[3].self) = 2
    /\ Depth(visited[4].self) = 1

\* --------------------------------------------------------------- C15
\* C15: a level leaves its fan-out only when no task of it is running, and
\* a step that writes the shared mapping is taken while no level is in its
\* fan-out.
C15_NoWriteDuringFanOut ==
    /\ [](\A f \in Frames : f.pc # "map" => f.pending = {})
    /\ [][available' # available => \A f \in Frames : f.pc # "map"]_vars

\* one task of a deeper level has completed and the other is still
\* running, with entries in the shared mapping
C15_Witness ==
    /\ Len(stack) >= 2
    /\ Top.pc = "map"
    /\ Len(Top.specs) = 2
    /\ Cardinality(Top.pending) = 1
    /\ DOMAIN available # {}

\* --------------------------------------------------------------- C17
\* the dependency names declared by the documents read so far
DeclaredNames ==
    UNION {NamesIn(comps[c].component_info.dependencies) : c \in DOMAIN comps}

\* C17: whatever cycles the documents form, the number of nested recursive
\* calls below the root never exceeds the number of distinct dependency
\* names, and the root's call returns in the end.
C17_CyclesTerminate ==
    /\ [](Len(stack) <= 1 + Cardinality(DeclaredNames))
    /\ <>(status = "done")

\* a level of a component that has the root's own name is active, below a
\* component the root depends on
C17_Witness ==
    /\ Len(stack) = 3
    /\ getName(Top.self) = RootName
    /\ getName(Top.self) \in NamesIn(comps[stack[2].self].component_info.dependencies)
    /\ getName(stack[2].self) \in NamesIn(Top.specs)

\* --------------------------------------------------------------- C18
\* C18: the names recursed into in a run are pairwise distinct; a component
\* is selected for recursion while its name is no key of the shared
\* mapping, and when the loop over the selected components begins, and
\* when its own recursive call starts, the mapping holds it under its name.
C18_RecursedAtMostOnce ==
    /\ [](\A i, j \in 2..Len(visited) :
             i # j => getName(visited[i].self) # getName(visited[j].self))
    /\ [](\A f \in Frames : \A k \in DOMAIN f.need_recursion :
             LET c == f.need_recursion[k]
             IN  /\ f.pc = "filtered" => getName(c) \notin DOMAIN available
                 /\ f.pc \in {"loop", "called"} =>
                       /\ getName(c) \in DOMAIN available
                       /\ available[getName(c)] = c)
    /\ [][(Len(visited) >= 1 /\ Len(visited') = Len(visited) + 1) =>
             LET c == Last(visited').self
             IN  /\ getName(c) \in DOMAIN available
                 /\ available[getName(c)] = c
         ]_vars

\* a level was given a component that had been recursed into before, and
\* did not select it
C18_Witness ==
    /\ stack # <<>>
    /\ Top.pc = "filtered"
    /\ \E c \in Range(Top.components) :
          /\ getName(c) \in RecursedNames
          /\ \E k \in 2..Len(visited) : visited[k].self = c
          /\ ~InNeed(Top, c)

\* --------------------------------------------------------------- C19
\* C19: the step in which a child's recursive call returns and its caller
\* merges the child's results leaves the shared mapping as it was: every
\* name of the results is a key of the mapping with the same component.
C19_MergeAfterChildIsNoOp ==
    [][(Len(stack) >= 2 /\ Len(stack') = Len(stack) - 1) =>
          /\ available' = available
          /\ \A n \in DOMAIN Top.components :
                /\ n \in DOMAIN available
                /\ available[n] = Top.components[n]
      ]_vars

\* a child is about to return results of which one was new at its level
\* and one was reused, after a grandchild's call has returned
C19_Witness ==
    /\ Len(stack) >= 2
    /\ Top.pc = "loop"
    /\ Top.need_recursion = <<>>
    /\ Len(visited) > Top.level
    /\ \E c \in Range(Top.components) : comps[c].path = component_path(Top.self, getName(c))
    /\ \E c \in Range(Top.components) : comps[c].path # component_path(Top.self, getName(c))

\* --------------------------------------------------------------- C16
\* C16: the tasks of a level that are running together are for distinct
\* names and write to distinct directories.
C16_DistinctTasks ==
    \A f \in Frames : \A i, j \in f.pending :
        i # j => /\ f.specs[i][1] # f.specs[j][1]
                 /\ component_path(f.self, f.specs[i][1]) # component_path(f.self, f.specs[j][1])

\* --------------------------------------------------------------- C20
\* C20: every component of a level's result mapping and every entry of the
\* shared mapping is valid, so the filter meets no failed component; a
\* dependency for which the satisfier returned an invalid component is not
\* in the results, and only the dependencies that raised gave an error.
C20_OnlyValidComponents ==
    /\ \A n \in DOMAIN available : Truthy(available[n])
    /\ \A f \in Frames :
          /\ \A c \in Range(f.components) : Truthy(c)
          /\ \A k \in DOMAIN f.need_recursion : Truthy(f.need_recursion[k])
          /\ f.pc = "joined" =>
                /\ \A i \in DOMAIN f.specs :
                      (f.dependencies[i] # None /\ ~Truthy(f.dependencies[i]))
                          => f.specs[i][1] \notin DOMAIN f.components
                /\ Len(f.errors) = Cardinality({i \in DOMAIN f.specs : f.dependencies[i] = None})

\* a level got an invalid component for one dependency and a valid one for
\* the other, and no error
C20_Witness ==
    /\ Len(stack) >= 2
    /\ Top.pc = "joined"
    /\ Top.errors = <<>>
    /\ ~comps[Top.self].dependencies_failed
    /\ \E i, j \in DOMAIN Top.specs :
          /\ Top.dependencies[i] # None /\ ~Truthy(Top.dependencies[i])
          /\ comps[Top.dependencies[i]].error # None
          /\ Truthy(Top.dependencies[j])
          /\ DOMAIN Top.components = {Top.specs[j][1]}

====
